---- MODULE Spec2Model ----
\* Wallet gating of the ZAO Nexus portal.
\*
\* Two state containers are modelled, each from the place it lives in the
\* repository:
\*   - the wallet store of the "Multi-Chain Token Balance Checking" guide
\*     (README.md): address, isConnected, zaoBalance, loanzBalance, hasTokens,
\*     lastChecked, the module-level provider / contract caches, and the
\*     balance-check cycles that are in flight;
\*   - the Home page (src/app/page.tsx) fed by WalletConnector
\*     (src/components/wallet-connector.tsx): walletAddress and the page's
\*     copies of hasTokens / zaoBalance / loanzBalance.
\* Two functions are checked on their own: the threshold test of
\* checkTokenBalance for a token of any decimals (SpecThreshold), and tag
\* generation with its local fallback (SpecTags).
\*
\* Token amounts are counted in units of 10^16 wei, so that the 18 decimals of
\* parseEther leave EtherDecimals = 2 decimal digits and every amount fits a
\* small integer.  Decimal strings are sequences of one-character strings.
EXTENDS Integers, Sequences, FiniteSets, TLC

VARIABLES
    \* wallet store (README.md, useWalletStore)
    address, isConnected, zaoBalance, loanzBalance, hasTokens, lastChecked,
    \* module-level caches (README.md:189-198)
    providers, contracts,
    \* history: how many times each constructor of initializeProviders has
    \* completed during this page load
    created,
    \* environment: the clock read by Date.now(), the cycles awaiting their queries
    now, inflight,
    \* history: how the latest checkTokenBalance call ended before its await, and
    \* when the latest round of queries was issued for each address during this
    \* page load
    lastCall, lastRoundAt,
    \* Privy (usePrivy) and the WalletConnector effect; notified is history:
    \* the latest callback the effect made and the page state it found
    ready, authenticated, userWallet, effectPending, notified,
    \* history: how the latest login() of WalletConnector ended
    lastLogin,
    \* Home page state (src/app/page.tsx:13-16)
    walletAddress, pageHasTokens, pageZaoBalance, pageLoanzBalance,
    \* one ERC-20 token put to the threshold test of checkTokenBalance: the
    \* decimals it reports, a raw balance, whether the test was made, and the
    \* flag computed for it
    tokenDecimals, tokenRaw, tokenChecked, tokenHasToken,
    \* AI tagging (src/services/ai-tagging-service.ts and the generate-tags
    \* route): whether OPENAI_API_KEY is set, and how the latest call ended
    apiKey, tagRequest, tagResult,
    \* links API (src/app/api/links/route.ts): the data files links.json and
    \* links-large.json, the POST requests being handled or answered, and the
    \* clock read by new Date()
    files, posts, postClock,
    \* VirtualizedLinkList (src/components/links/virtualized-link-list.tsx):
    \* useAuth().isAuthenticated, the filterTags prop, the component's filter
    \* state, the tags Math.random() gave to links without tags, and the links
    \* the fuzzy search accepts for the current query
    isAuthenticated, filterTags, searchQuery, selectedCategory, selectedSubcategory,
    selectedTags, viewMode, randomTags, fuseHits,
    \* loadLinks of the Home page and of the links page (src/app/page.tsx:45-68,
    \* src/app/links/page.tsx:13-35): for each page where the function is, its
    \* loading and linksData state, and how its fetch and its fallback ended
    loaders

storeVars == <<address, isConnected, zaoBalance, loanzBalance, hasTokens, lastChecked>>
cacheVars == <<providers, contracts, created>>
cycleVars == <<now, inflight, lastCall, lastRoundAt>>
privyVars == <<ready, authenticated, userWallet, effectPending, notified, lastLogin>>
pageVars  == <<walletAddress, pageHasTokens, pageZaoBalance, pageLoanzBalance>>
walletVars == <<storeVars, cacheVars, cycleVars>>
homeVars == <<privyVars, pageVars>>
thresholdVars == <<tokenDecimals, tokenRaw, tokenChecked, tokenHasToken>>
tagVars == <<apiKey, tagRequest, tagResult>>
linksApiVars == <<files, posts, postClock>>
\* what the wallet store's actions never touch, and what the Home page's never touch
linkListVars == <<isAuthenticated, filterTags, searchQuery, selectedCategory,
                  selectedSubcategory, selectedTags, viewMode, randomTags, fuseHits>>
loadVars == <<loaders>>
\* what the actions of each part never touch
notWalletVars == <<homeVars, thresholdVars, tagVars, linksApiVars, linkListVars, loadVars>>
notHomeVars == <<walletVars, thresholdVars, tagVars, linksApiVars, linkListVars, loadVars>>
notThresholdVars == <<walletVars, homeVars, tagVars, linksApiVars, linkListVars, loadVars>>
notTagVars == <<walletVars, homeVars, thresholdVars, linksApiVars, linkListVars, loadVars>>
notLinksApiVars == <<walletVars, homeVars, thresholdVars, tagVars, linkListVars, loadVars>>
notLinkListVars == <<walletVars, homeVars, thresholdVars, tagVars, linksApiVars, loadVars>>
notLoadVars == <<walletVars, homeVars, thresholdVars, tagVars, linksApiVars, linkListVars>>
vars == <<walletVars, homeVars, thresholdVars, tagVars, linksApiVars, linkListVars, loadVars>>

-----------------------------------------------------------------------------
\* Bounds and constants

\* 10 seconds cooldown, in milliseconds
Cooldown == 10000
\* the clock advances in steps of TickMs, at most MaxTicks times
TickMs == 5000
MaxTicks == 2
\* parseEther / formatEther work with 18 decimals; in units of 10^16 wei: 2
EtherDecimals == 2

NULL == "null"
Addresses == {"0xa", "0xb"}
\* what balanceOf may return, in units of 10^16 wei: 0.05 and 0.1 token
RawBalances == {5, 10}
\* the account lists an accountsChanged event may carry
AccountLists == {<<>>, <<"0xa">>, <<"0xb", "0xa">>}
\* the decimals an ERC-20 token may report, on the scale where 18 is
\* EtherDecimals, and the raw balances put to the threshold test
MaxDecimals == 3
MaxRaw == 120
\* how many POST /api/links requests arrive in all
MaxPosts == 2
\* which constructor of initializeProviders throws, if any
Constructors == {"optimism", "base", "zao", "loanz"}

-----------------------------------------------------------------------------
\* Decimal strings

Digits == <<"0", "1", "2", "3", "4", "5", "6", "7", "8", "9">>
DigitChar(d) == Digits[d + 1]
DigitVal(c) == CHOOSE d \in 0..9 : Digits[d + 1] = c

RECURSIVE Pow10(_)
Pow10(n) == IF n = 0 THEN 1 ELSE 10 * Pow10(n - 1)

RECURSIVE IntDigits(_)
IntDigits(n) == IF n < 10 THEN <<DigitChar(n)>>
                ELSE IntDigits(n \div 10) \o <<DigitChar(n % 10)>>

RECURSIVE PadDigits(_, _)
PadDigits(f, width) == IF width = 0 THEN <<>>
                       ELSE PadDigits(f \div 10, width - 1) \o <<DigitChar(f % 10)>>

RECURSIVE StripZeros(_)
StripZeros(s) == IF Len(s) > 1 /\ s[Len(s)] = "0"
                 THEN StripZeros(SubSeq(s, 1, Len(s) - 1))
                 ELSE s

RECURSIVE DigitsVal(_)
DigitsVal(s) == IF Len(s) = 0 THEN 0
                ELSE 10 * DigitsVal(SubSeq(s, 1, Len(s) - 1)) + DigitVal(s[Len(s)])

\* ethers formatUnits: whole part, ".", fraction without trailing zeros
formatUnits(raw, decimals) ==
    IntDigits(raw \div Pow10(decimals)) \o <<".">>
        \o StripZeros(PadDigits(raw % Pow10(decimals), decimals))

DotAt(s) == IF \E i \in 1..Len(s) : s[i] = "."
            THEN CHOOSE i \in 1..Len(s) : s[i] = "."
            ELSE Len(s) + 1

\* ethers parseUnits: the decimal string as an amount of smallest units
parseUnits(s, decimals) ==
    LET dot   == DotAt(s)
        whole == SubSeq(s, 1, dot - 1)
        frac  == SubSeq(s, dot + 1, Len(s))
    IN  DigitsVal(whole) * Pow10(decimals)
          + DigitsVal(frac) * Pow10(decimals - Len(frac))

parseEther(s) == parseUnits(s, EtherDecimals)

\* the balance string shown for a raw amount
formatBalance(raw) == formatUnits(raw, EtherDecimals)

ZeroBalance == <<"0">>
Tenth == <<"0", ".", "1">>

-----------------------------------------------------------------------------
\* One balance query: contracts.<token>.balanceOf(address)

Pending == [st |-> "pending", raw |-> 0]
Failed  == [st |-> "error", raw |-> 0]
Ok(raw) == [st |-> "ok", raw |-> raw]
Outcomes == {Failed} \cup {Ok(r) : r \in RawBalances}

\* the value an async task of Promise.allSettled settles with: the formatted
\* balance and the threshold flag, or '0' and false from the catch block
BalanceTask_gt(q) ==
    IF q.st = "ok"
    THEN [status |-> "fulfilled", balance |-> formatBalance(q.raw),
          hasToken |-> q.raw > parseEther(Tenth)]
    ELSE IF q.st = "error"
    THEN [status |-> "fulfilled", balance |-> ZeroBalance, hasToken |-> FALSE]
    ELSE [status |-> "pending", balance |-> ZeroBalance, hasToken |-> FALSE]

BalanceTask_rethrow(q) ==
    IF q.st = "ok"
    THEN [status |-> "fulfilled", balance |-> formatBalance(q.raw),
          hasToken |-> q.raw >= parseEther(Tenth)]
    ELSE IF q.st = "error"
    THEN [status |-> "rejected", balance |-> ZeroBalance, hasToken |-> FALSE]
    ELSE [status |-> "pending", balance |-> ZeroBalance, hasToken |-> FALSE]

BalanceTask(q) ==
    IF q.st = "ok"
    THEN [status |-> "fulfilled", balance |-> formatBalance(q.raw),
          hasToken |-> q.raw >= parseEther(Tenth)]
    ELSE IF q.st = "error"
    THEN [status |-> "fulfilled", balance |-> ZeroBalance, hasToken |-> FALSE]
    ELSE [status |-> "pending", balance |-> ZeroBalance, hasToken |-> FALSE]

\* await Promise.allSettled([...]) resumes when no task is pending
AllSettled_race(c) == c.zao.st # "pending" \/ c.loanz.st # "pending"

AllSettled(c) == c.zao.st # "pending" /\ c.loanz.st # "pending"

\* if (results[i].status === 'fulfilled') set({ <token>Balance: results[i].value.balance })
ApplyBalance(old, res) == IF res.status = "fulfilled" THEN res.balance ELSE old

\* set({ hasTokens: (fulfilled && hasToken) || (fulfilled && hasToken) })
HasTokensOf_and(r0, r1) ==
    (r0.status = "fulfilled" /\ r0.hasToken) /\ (r1.status = "fulfilled" /\ r1.hasToken)

HasTokensOf(r0, r1) ==
    (r0.status = "fulfilled" /\ r0.hasToken) \/ (r1.status = "fulfilled" /\ r1.hasToken)

-----------------------------------------------------------------------------
\* initializeProviders: each cache slot is filled once; a constructor that
\* throws leaves its slot and the later ones as they were

\* initializeProviders without its four null tests: every call constructs
InitializeProviders_always(p, c, failing) ==
    LET t1 == failing = "optimism"
        t2 == t1 \/ failing = "base"
        t3 == t2 \/ failing = "zao"
        t4 == t3 \/ failing = "loanz"
    IN  [providers |-> [optimism |-> p.optimism \/ ~t1, base |-> p.base \/ ~t2],
         contracts |-> [zao |-> c.zao \/ ~t3, loanz |-> c.loanz \/ ~t4],
         threw |-> t4,
         ran |-> {k \in Constructors :
                    \/ (k = "optimism" /\ ~t1) \/ (k = "base" /\ ~t2)
                    \/ (k = "zao" /\ ~t3) \/ (k = "loanz" /\ ~t4)}]

\* ran: the constructors the call ran to completion
InitializeProviders(p, c, failing) ==
    LET t1 == ~p.optimism /\ failing = "optimism"
        n1 == ~p.optimism /\ ~t1
        p1 == IF n1 THEN [p EXCEPT !.optimism = TRUE] ELSE p
        t2 == t1 \/ (~p1.base /\ failing = "base")
        n2 == ~p1.base /\ ~t2
        p2 == IF n2 THEN [p1 EXCEPT !.base = TRUE] ELSE p1
        t3 == t2 \/ (~c.zao /\ p2.optimism /\ failing = "zao")
        n3 == ~c.zao /\ p2.optimism /\ ~t3
        c1 == IF n3 THEN [c EXCEPT !.zao = TRUE] ELSE c
        t4 == t3 \/ (~c1.loanz /\ p2.base /\ failing = "loanz")
        n4 == ~c1.loanz /\ p2.base /\ ~t4
        c2 == IF n4 THEN [c1 EXCEPT !.loanz = TRUE] ELSE c1
    IN  [providers |-> p2, contracts |-> c2, threw |-> t4,
         ran |-> {k \in Constructors :
                    \/ (k = "optimism" /\ n1) \/ (k = "base" /\ n2)
                    \/ (k = "zao" /\ n3) \/ (k = "loanz" /\ n4)}]

\* the constructors a call of initializeProviders would run: only these can throw
Uncached(p, c) ==
    {k \in Constructors :
        ~[optimism |-> p.optimism, base |-> p.base, zao |-> c.zao, loanz |-> c.loanz][k]}

\* balanceOf on a contract that was never created is a TypeError inside the try
FirstQuery(contract) == IF contract THEN Pending ELSE Failed

\* if (Date.now() - lastChecked < 10000) return;
Throttled_gt(t, last) == t - last > Cooldown

Throttled(t, last) == t - last < Cooldown

\* if (!address) return;
NoAddress_never(addr) == FALSE

NoAddress(addr) == addr = NULL

\* checkTokenBalance up to its await, called while the store's address is addr
CheckTokenBalance(addr) ==
    IF NoAddress(addr)
    THEN /\ lastCall' = "noAddress"
         /\ UNCHANGED <<lastChecked, providers, contracts, created, inflight, lastRoundAt>>
    ELSE IF Throttled(now, lastChecked)
    THEN /\ lastCall' = "throttled"
         /\ UNCHANGED <<lastChecked, providers, contracts, created, inflight, lastRoundAt>>
    ELSE /\ lastChecked' = now
         /\ \E failing \in Uncached(providers, contracts) \cup {"none"} :
              LET r == InitializeProviders(providers, contracts, failing)
              IN  /\ providers' = r.providers
                  /\ contracts' = r.contracts
                  /\ created' = [k \in Constructors |->
                                   created[k] + IF k \in r.ran THEN 1 ELSE 0]
                  /\ IF r.threw
                     THEN /\ lastCall' = "rejected"
                          /\ UNCHANGED <<inflight, lastRoundAt>>
                     ELSE /\ lastCall' = "started"
                          /\ inflight' = Append(inflight,
                                [addr  |-> addr,
                                 zao   |-> FirstQuery(r.contracts.zao),
                                 loanz |-> FirstQuery(r.contracts.loanz)])
                          /\ lastRoundAt' = [lastRoundAt EXCEPT ![addr] = now]

RemoveAt(s, i) == SubSeq(s, 1, i - 1) \o SubSeq(s, i + 1, Len(s))

\* one query of the i-th cycle in flight settles
QuerySettle(i, token, outcome) ==
    /\ i \in 1..Len(inflight)
    /\ inflight[i][token].st = "pending"
    /\ inflight' = [inflight EXCEPT ![i][token] = outcome]
    /\ UNCHANGED <<storeVars, cacheVars, now, lastCall, lastRoundAt, notWalletVars>>

\* a completion that also stamps lastChecked
Complete_stampsTime(i) ==
    /\ i \in 1..Len(inflight)
    /\ AllSettled(inflight[i])
    /\ LET r0 == BalanceTask(inflight[i].zao)
           r1 == BalanceTask(inflight[i].loanz)
       IN  /\ zaoBalance' = ApplyBalance(zaoBalance, r0)
           /\ loanzBalance' = ApplyBalance(loanzBalance, r1)
           /\ hasTokens' = HasTokensOf(r0, r1)
    /\ lastChecked' = now
    /\ inflight' = RemoveAt(inflight, i)
    /\ UNCHANGED <<address, isConnected, cacheVars, now, lastCall, lastRoundAt, notWalletVars>>

\* checkTokenBalance after its await: "Update state with results"
Complete(i) ==
    /\ i \in 1..Len(inflight)
    /\ AllSettled(inflight[i])
    /\ LET r0 == BalanceTask(inflight[i].zao)
           r1 == BalanceTask(inflight[i].loanz)
       IN  /\ zaoBalance' = ApplyBalance(zaoBalance, r0)
           /\ loanzBalance' = ApplyBalance(loanzBalance, r1)
           /\ hasTokens' = HasTokensOf(r0, r1)
    /\ inflight' = RemoveAt(inflight, i)
    /\ UNCHANGED <<address, isConnected, lastChecked, cacheVars, now, lastCall,
                   lastRoundAt, notWalletVars>>

\* a manual refresh
Refresh ==
    /\ CheckTokenBalance(address)
    /\ UNCHANGED <<address, isConnected, zaoBalance, loanzBalance, hasTokens, now, notWalletVars>>

\* window.ethereum.on('chainChanged', ...)
ChainChanged ==
    /\ CheckTokenBalance(address)
    /\ UNCHANGED <<address, isConnected, zaoBalance, loanzBalance, hasTokens, now, notWalletVars>>

\* the store's disconnect()
Disconnect ==
    /\ address' = NULL
    /\ isConnected' = FALSE
    /\ zaoBalance' = ZeroBalance
    /\ loanzBalance' = ZeroBalance
    /\ hasTokens' = FALSE
    /\ UNCHANGED <<lastChecked, cacheVars, cycleVars, notWalletVars>>

\* an accountsChanged handler that only forgets the address of an empty list
AccountsChanged_clearAddress(accounts) ==
    IF Len(accounts) = 0
    THEN /\ address' = NULL
         /\ UNCHANGED <<isConnected, zaoBalance, loanzBalance, hasTokens, lastChecked,
                        cacheVars, cycleVars, notWalletVars>>
    ELSE /\ address' = accounts[1]
         /\ CheckTokenBalance(accounts[1])
         /\ UNCHANGED <<isConnected, zaoBalance, loanzBalance, hasTokens, now, notWalletVars>>

\* window.ethereum.on('accountsChanged', ...)
AccountsChanged(accounts) ==
    IF Len(accounts) = 0
    THEN Disconnect
    ELSE /\ address' = accounts[1]
         /\ CheckTokenBalance(accounts[1])
         /\ UNCHANGED <<isConnected, zaoBalance, loanzBalance, hasTokens, now, notWalletVars>>

\* the store's connect(), when the wallet provider grants an account
Connect(a) ==
    /\ address = NULL
    /\ address' = a
    /\ isConnected' = TRUE
    /\ CheckTokenBalance(a)
    /\ UNCHANGED <<zaoBalance, loanzBalance, hasTokens, now, notWalletVars>>

\* Date.now() moves on
Tick ==
    /\ now < Cooldown + MaxTicks * TickMs
    /\ now' = now + TickMs
    /\ UNCHANGED <<storeVars, cacheVars, inflight, lastCall, lastRoundAt, notWalletVars>>

\* a page reload: the persisted fields are rehydrated, everything else starts over
Reload ==
    /\ lastChecked' = 0
    /\ providers' = [optimism |-> FALSE, base |-> FALSE]
    /\ contracts' = [zao |-> FALSE, loanz |-> FALSE]
    /\ created' = [k \in Constructors |-> 0]
    /\ inflight' = <<>>
    /\ lastCall' = "none"
    /\ lastRoundAt' = [a \in Addresses |-> 0]
    /\ UNCHANGED <<address, isConnected, zaoBalance, loanzBalance, hasTokens, now, notWalletVars>>

-----------------------------------------------------------------------------
\* Home page (src/app/page.tsx) and WalletConnector

HandleWalletConnected(a) ==
    /\ walletAddress' = a
    /\ UNCHANGED <<pageHasTokens, pageZaoBalance, pageLoanzBalance>>

HandleWalletDisconnected_keepTokens ==
    /\ walletAddress' = NULL
    /\ pageZaoBalance' = ZeroBalance
    /\ pageLoanzBalance' = ZeroBalance
    /\ UNCHANGED pageHasTokens

HandleWalletDisconnected ==
    /\ walletAddress' = NULL
    /\ pageHasTokens' = FALSE
    /\ pageZaoBalance' = ZeroBalance
    /\ pageLoanzBalance' = ZeroBalance

HandleBalancesChecked(has, zao, loanz) ==
    /\ pageHasTokens' = has
    /\ pageZaoBalance' = zao
    /\ pageLoanzBalance' = loanz
    /\ UNCHANGED walletAddress

\* Privy finishes loading
PrivyReady ==
    /\ ~ready
    /\ ready' = TRUE
    /\ effectPending' = TRUE
    /\ UNCHANGED <<authenticated, userWallet, notified, lastLogin, pageVars, notHomeVars>>

\* login(): the user authenticates, with a wallet or (w = NULL) without one
Login(w) ==
    /\ ready /\ ~authenticated
    /\ authenticated' = TRUE
    /\ userWallet' = w
    /\ effectPending' = TRUE
    /\ lastLogin' = "ok"
    /\ UNCHANGED <<ready, notified, pageVars, notHomeVars>>

\* login() that does not succeed: the user closes the dialog, the wallet
\* rejects, or no wallet is installed.  usePrivy() returns the same values as
\* before, so the component does not render again, the effect does not run,
\* and neither callback of WalletConnectorProps is called
LoginFailed ==
    /\ ready /\ ~authenticated
    /\ lastLogin' = "failed"
    /\ UNCHANGED <<ready, authenticated, userWallet, effectPending, notified,
                   pageVars, notHomeVars>>

\* logout()
Logout ==
    /\ ready /\ authenticated
    /\ authenticated' = FALSE
    /\ userWallet' = NULL
    /\ effectPending' = TRUE
    /\ UNCHANGED <<ready, notified, lastLogin, pageVars, notHomeVars>>

\* user.wallet.address changes while the user stays authenticated
WalletChanged(w) ==
    /\ ready /\ authenticated
    /\ w # userWallet
    /\ userWallet' = w
    /\ effectPending' = TRUE
    /\ UNCHANGED <<ready, authenticated, notified, lastLogin, pageVars, notHomeVars>>

\* the useEffect of WalletConnector; the callbacks it depends on are new
\* functions on every render of Home, so it runs again after each change of
\* the page state
WalletConnectorEffect ==
    /\ effectPending
    /\ IF ready /\ authenticated /\ userWallet # NULL
       THEN /\ HandleWalletConnected(userWallet)
            /\ notified' = [kind |-> "connected", address |-> walletAddress,
                            hadTokens |-> pageHasTokens]
       ELSE IF ready /\ ~authenticated
       THEN /\ HandleWalletDisconnected
            /\ notified' = [kind |-> "disconnected", address |-> walletAddress,
                            hadTokens |-> pageHasTokens]
       ELSE UNCHANGED <<pageVars, notified>>
    /\ effectPending' = (pageVars' # pageVars)
    /\ UNCHANGED <<ready, authenticated, userWallet, lastLogin, notHomeVars>>

\* TokenChecker reports the balances it read for walletAddress
TokenCheckerReport(zao, loanz) ==
    /\ walletAddress # NULL
    /\ LET r0 == BalanceTask(zao)
           r1 == BalanceTask(loanz)
       IN  HandleBalancesChecked(HasTokensOf(r0, r1), r0.balance, r1.balance)
    /\ effectPending' = (effectPending \/ pageVars' # pageVars)
    /\ UNCHANGED <<ready, authenticated, userWallet, notified, lastLogin, notHomeVars>>

NextHome ==
    \/ PrivyReady
    \/ \E w \in Addresses \cup {NULL} : Login(w)
    \/ LoginFailed
    \/ Logout
    \/ \E w \in Addresses \cup {NULL} : WalletChanged(w)
    \/ WalletConnectorEffect
    \/ \E zao \in Outcomes, loanz \in Outcomes : TokenCheckerReport(zao, loanz)

-----------------------------------------------------------------------------
InitWallet ==
    /\ address = NULL
    /\ isConnected = FALSE
    /\ zaoBalance = ZeroBalance
    /\ loanzBalance = ZeroBalance
    /\ hasTokens = FALSE
    /\ lastChecked = 0
    /\ providers = [optimism |-> FALSE, base |-> FALSE]
    /\ contracts = [zao |-> FALSE, loanz |-> FALSE]
    /\ created = [k \in Constructors |-> 0]
    /\ now = Cooldown
    /\ inflight = <<>>
    /\ lastCall = "none"
    /\ lastRoundAt = [a \in Addresses |-> 0]

InitHome ==
    /\ ready = FALSE
    /\ authenticated = FALSE
    /\ userWallet = NULL
    /\ effectPending = FALSE
    /\ notified = [kind |-> "none", address |-> NULL, hadTokens |-> FALSE]
    /\ lastLogin = "none"
    /\ walletAddress = NULL
    /\ pageHasTokens = FALSE
    /\ pageZaoBalance = ZeroBalance
    /\ pageLoanzBalance = ZeroBalance

\* no token is under test
InitThresholdIdle ==
    /\ tokenDecimals = EtherDecimals
    /\ tokenRaw = 0
    /\ tokenChecked = FALSE
    /\ tokenHasToken = FALSE

\* no tagging call was made
InitTagsIdle ==
    /\ apiKey = FALSE
    /\ tagRequest = [via |-> "none"]
    /\ tagResult = [kind |-> "none"]

\* no request reaches the links API
InitLinksApiIdle ==
    /\ files = [default |-> [exists |-> TRUE, linksGiven |-> TRUE, links |-> <<>>],
                large   |-> [exists |-> FALSE, linksGiven |-> FALSE, links |-> <<>>]]
    /\ posts = <<>>
    /\ postClock = 1

\* the link list is not mounted
InitLinkListIdle ==
    /\ isAuthenticated = FALSE
    /\ filterTags = <<>>
    /\ searchQuery = <<>>
    /\ selectedCategory = NULL
    /\ selectedSubcategory = NULL
    /\ selectedTags = <<>>
    /\ viewMode = "grid"
    /\ randomTags = <<>>
    /\ fuseHits = {}

\* the pages have rendered once: loading is true, linksData is null, and the
\* effect that calls loadLinks has not run yet
NoData == [kind |-> "none", from |-> "none", version |-> 0]

InitLoadIdle ==
    loaders = [p \in {"home", "links"} |->
                 [pc |-> "idle", loading |-> TRUE, linksData |-> NoData,
                  fetched |-> "pending", fallback |-> "none"]]

Init ==
    /\ InitWallet /\ InitHome /\ InitThresholdIdle /\ InitTagsIdle /\ InitLinksApiIdle
    /\ InitLinkListIdle /\ InitLoadIdle

Next ==
    \/ \E a \in Addresses : Connect(a)
    \/ Disconnect
    \/ \E accounts \in AccountLists : AccountsChanged(accounts)
    \/ ChainChanged
    \/ Refresh
    \/ \E i \in 1..Len(inflight), token \in {"zao", "loanz"}, outcome \in Outcomes :
          QuerySettle(i, token, outcome)
    \/ \E i \in 1..Len(inflight) : Complete(i)
    \/ Tick
    \/ Reload

Spec == Init /\ [][Next]_vars

SpecHome == Init /\ [][NextHome]_vars

-----------------------------------------------------------------------------
\* The threshold test of checkTokenBalance as a function of one token's raw
\* balance: balance.gte(ethers.utils.parseEther("0.1")).  The token's own
\* decimals are never read by the code; tokenDecimals is how the token counts.

InitThreshold ==
    /\ InitWallet /\ InitHome /\ InitTagsIdle /\ InitLinksApiIdle /\ InitLinkListIdle
    /\ InitLoadIdle
    /\ tokenDecimals \in 1..MaxDecimals
    /\ tokenRaw \in 0..MaxRaw
    /\ tokenChecked = FALSE
    /\ tokenHasToken = FALSE

ThresholdCheck ==
    /\ ~tokenChecked
    /\ tokenChecked' = TRUE
    /\ tokenHasToken' = BalanceTask(Ok(tokenRaw)).hasToken
    /\ UNCHANGED <<tokenDecimals, tokenRaw, notThresholdVars>>

NextThreshold == ThresholdCheck

SpecThreshold == InitThreshold /\ [][NextThreshold]_vars

-----------------------------------------------------------------------------
\* AI tagging: AITaggingService.generateTags (src/services/ai-tagging-service.ts)
\* and the handler of POST /api/generate-tags.  Texts are sequences of
\* one-character strings; confidences are in hundredths.

\* "ZAO", "dao org", "x" and the empty title
Titles == {<<"Z", "A", "O">>, <<"d", "a", "o", " ", "o", "r", "g">>, <<"x">>, <<>>}
\* no description, "Music"
Descriptions == {<<>>, <<"M", "u", "s", "i", "c">>}

\* what JSON.parse may give for the content of a completion: an object whose
\* tags / confidence / categories are given or missing (confidence 0: missing)
ParsedContents ==
    {[tagsGiven |-> tg, tags |-> IF tg THEN <<"ai">> ELSE <<>>,
      confidence |-> c,
      categoriesGiven |-> cg, categories |-> IF cg THEN <<"web">> ELSE <<>>] :
        tg \in BOOLEAN, c \in {0, 85}, cg \in BOOLEAN}

\* how openai.chat.completions.create and the parsing of its answer may go:
\* the call rejects, the content is empty, the content is not JSON, the
\* content is the JSON value null, or the content is a JSON object
OpenAIOutcomes ==
    {[st |-> "error"], [st |-> "empty"], [st |-> "badjson"], [st |-> "jsonNull"]}
        \cup {[st |-> "json", parsed |-> c] : c \in ParsedContents}

Lower(c) ==
    CASE c = "Z" -> "z" [] c = "A" -> "a" [] c = "O" -> "o" [] c = "M" -> "m"
      [] OTHER -> c

toLowerCase(text) == [i \in 1..Len(text) |-> Lower(text[i])]

\* text.includes(keyword)
Includes(text, keyword) ==
    \E i \in 1..(Len(text) - Len(keyword) + 1) :
        SubSeq(text, i, i + Len(keyword) - 1) = keyword

\* keywordToTags, in the order of its entries
KeywordToTags ==
    << [keyword |-> <<"d","i","s","c","o","r","d">>, tags |-> <<"social", "community", "chat">>],
       [keyword |-> <<"t","w","i","t","t","e","r">>, tags |-> <<"social", "news", "updates">>],
       [keyword |-> <<"x",".","c","o","m">>, tags |-> <<"social", "news", "updates">>],
       [keyword |-> <<"c","h","a","r","t">>, tags |-> <<"data", "analytics", "visualization">>],
       [keyword |-> <<"c","a","l","e","n","d","a","r">>, tags |-> <<"events", "schedule", "planning">>],
       [keyword |-> <<"w","e","b","s","i","t","e">>, tags |-> <<"official", "information">>],
       [keyword |-> <<"d","a","o">>, tags |-> <<"governance", "community", "blockchain">>],
       [keyword |-> <<"z","a","o">>, tags |-> <<"official", "zao">>],
       [keyword |-> <<"m","u","s","i","c">>, tags |-> <<"entertainment", "audio">>],
       [keyword |-> <<"e","v","e","n","t">>, tags |-> <<"schedule", "community">>],
       [keyword |-> <<"o","r","g">>, tags |-> <<"organization", "structure">>],
       [keyword |-> <<"g","o","o","g","l","e">>, tags |-> <<"tools", "productivity">>] >>

\* Set.add for each element of tags, keeping the order of first insertion
RECURSIVE AddAll(_, _)
AddAll(acc, tags) ==
    IF Len(tags) = 0 THEN acc
    ELSE AddAll(IF \E j \in 1..Len(acc) : acc[j] = Head(tags)
                THEN acc ELSE Append(acc, Head(tags)),
                Tail(tags))

RECURSIVE CollectTags(_, _, _)
CollectTags(text, k, acc) ==
    IF k > Len(KeywordToTags) THEN acc
    ELSE CollectTags(text, k + 1,
                     IF Includes(text, KeywordToTags[k].keyword)
                     THEN AddAll(acc, KeywordToTags[k].tags) ELSE acc)

\* generateTagsLocally
LocalConfidence == 60
DefaultConfidence == 70

generateTagsLocally(request) ==
    LET combinedText == toLowerCase(request.title \o <<" ">> \o request.description)
    IN  [suggestedTags |-> CollectTags(combinedText, 1, <<>>),
         confidence |-> LocalConfidence,
         categories |-> <<>>]

\* the object the try block builds from the parsed content
FromParsed(parsed) ==
    [suggestedTags |-> IF parsed.tagsGiven THEN parsed.tags ELSE <<>>,
     confidence |-> IF parsed.confidence # 0 THEN parsed.confidence ELSE DefaultConfidence,
     categories |-> IF parsed.categoriesGiven THEN parsed.categories ELSE <<>>]

\* AITaggingService.generateTags: what the returned promise settles with
generateTags(initialized, request, outcome) ==
    IF ~initialized
    THEN [kind |-> "raised", error |-> "AI Tagging Service is not initialized"]
    ELSE IF outcome.st = "json"
    THEN [kind |-> "returned", value |-> FromParsed(outcome.parsed)]
    ELSE [kind |-> "returned", value |-> generateTagsLocally(request)]

\* POST /api/generate-tags: the response of the handler
PostGenerateTags(key, bodyIsJson, request, outcome) ==
    IF ~bodyIsJson
    THEN [kind |-> "response", status |-> 500, error |-> "Failed to process request"]
    ELSE IF Len(request.title) = 0
    THEN [kind |-> "response", status |-> 400, error |-> "Title is required"]
    ELSE IF ~key
    THEN [kind |-> "response", status |-> 200, value |-> generateTagsLocally(request)]
    ELSE IF outcome.st = "json"
    THEN [kind |-> "response", status |-> 200, value |-> FromParsed(outcome.parsed)]
    ELSE [kind |-> "response", status |-> 200, value |-> generateTagsLocally(request)]

\* the service is constructed with process.env.OPENAI_API_KEY, set or not
InitTags ==
    /\ InitWallet /\ InitHome /\ InitThresholdIdle /\ InitLinksApiIdle /\ InitLinkListIdle
    /\ InitLoadIdle
    /\ apiKey \in BOOLEAN
    /\ tagRequest = [via |-> "none"]
    /\ tagResult = [kind |-> "none"]

\* a call of aiTaggingService.generateTags(request)
GenerateTagsCall(title, description, outcome) ==
    LET request == [title |-> title, description |-> description]
    IN  /\ tagRequest' = [via |-> "service", title |-> title,
                          description |-> description, openai |-> outcome]
        /\ tagResult' = generateTags(apiKey, request, outcome)
        /\ UNCHANGED <<apiKey, notTagVars>>

\* a POST request to /api/generate-tags
PostGenerateTagsCall(bodyIsJson, title, description, outcome) ==
    LET request == [title |-> title, description |-> description]
    IN  /\ tagRequest' = [via |-> "route", bodyIsJson |-> bodyIsJson, title |-> title,
                          description |-> description, openai |-> outcome]
        /\ tagResult' = PostGenerateTags(apiKey, bodyIsJson, request, outcome)
        /\ UNCHANGED <<apiKey, notTagVars>>

NextTags ==
    \/ \E title \in Titles, description \in Descriptions, outcome \in OpenAIOutcomes :
          GenerateTagsCall(title, description, outcome)
    \/ \E bodyIsJson \in BOOLEAN, title \in Titles, description \in Descriptions,
          outcome \in OpenAIOutcomes :
          PostGenerateTagsCall(bodyIsJson, title, description, outcome)

SpecTags == InitTags /\ [][NextTags]_vars

-----------------------------------------------------------------------------
\* Links API: POST of src/app/api/links/route.ts.  A link is a function from
\* the names of the fields it has to their values; a data file is missing or
\* holds a Data object, whose links array may be absent.

LinkIds == {"1", "2"}
Datasets == {"default", "large"}

\* links a request may carry: complete ones, and ones lacking a required field
ValidLinks == {[id |-> i, title |-> "b", url |-> "u"] : i \in LinkIds}
InvalidLinks == {[title |-> "b", url |-> "u"], [id |-> "1", title |-> "", url |-> "u"],
                 [id |-> "2", title |-> "b"]}
PostBodies ==
    {[kind |-> "notJson"], [kind |-> "noLink"]}
        \cup {[kind |-> "link", link |-> l] : l \in ValidLinks \cup InvalidLinks}

\* a link stored before any request
SeedLink == [id |-> "1", title |-> "a", url |-> "u", description |-> "d", createdAt |-> 0]

MissingFile == [exists |-> FALSE, linksGiven |-> FALSE, links |-> <<>>]
DataFile(links) == [exists |-> TRUE, linksGiven |-> TRUE, links |-> links]

\* !link.field
Falsy(link, field) == field \notin DOMAIN link \/ link[field] = ""

\* if (!link || !link.id || !link.title || !link.url)
InvalidBody_idOnly(body) ==
    \/ body.kind = "noLink"
    \/ body.kind = "link" /\ Falsy(body.link, "id")

InvalidBody(body) ==
    \/ body.kind = "noLink"
    \/ body.kind = "link"
         /\ (Falsy(body.link, "id") \/ Falsy(body.link, "title") \/ Falsy(body.link, "url"))

\* the file loadLinksData reads: links-large.json for 'large' if it exists,
\* links.json otherwise
FileRead(fs, dataset) ==
    IF dataset = "large" /\ fs.large.exists THEN "large" ELSE "default"

\* the file saveLinksData writes
FileWritten(dataset) == IF dataset = "large" THEN "large" ELSE "default"

\* { ...a, ...b }
Spread(a, b) == [f \in DOMAIN a \cup DOMAIN b |-> IF f \in DOMAIN b THEN b[f] ELSE a[f]]

\* links.findIndex(l => l.id === id), 0 for -1
FindIndex(links, id) ==
    IF \E i \in 1..Len(links) : links[i].id = id
    THEN CHOOSE i \in 1..Len(links) :
            links[i].id = id /\ \A j \in 1..(i - 1) : links[j].id # id
    ELSE 0

\* an update that always pushes
UpsertLink_alwaysPush(links, link, t) ==
    Append(links, Spread(link, [createdAt |-> t]))

\* update the existing link or add the new one
UpsertLink(links, link, t) ==
    LET existingLinkIndex == FindIndex(links, link.id)
    IN  IF existingLinkIndex > 0
        THEN [links EXCEPT ![existingLinkIndex] =
                 Spread(Spread(links[existingLinkIndex], link), [updatedAt |-> t])]
        ELSE Append(links, Spread(link, [createdAt |-> t]))

\* the data files before any request
InitLinksApi ==
    /\ InitWallet /\ InitHome /\ InitThresholdIdle /\ InitTagsIdle /\ InitLinkListIdle
    /\ InitLoadIdle
    /\ files \in [default : {MissingFile, DataFile(<<>>), DataFile(<<SeedLink>>),
                              [exists |-> TRUE, linksGiven |-> FALSE, links |-> <<>>]},
                   large : {MissingFile, DataFile(<<>>)}]
    /\ posts = <<>>
    /\ postClock = 1

\* a POST request arrives; the handler waits for request.json()
PostArrives(dataset, body) ==
    /\ Len(posts) < MaxPosts
    /\ posts' = Append(posts, [dataset |-> dataset, body |-> body, pc |-> "json",
                               loaded |-> <<>>, status |-> 0, wrote |-> FALSE])
    /\ UNCHANGED <<files, postClock, notLinksApiVars>>

\* from the parsed body to the await of loadLinksData: validation, then the
\* synchronous read of the file
PostLoad(k) ==
    /\ k \in 1..Len(posts)
    /\ posts[k].pc = "json"
    /\ LET p == posts[k]
           f == files[FileRead(files, p.dataset)]
       IN  posts' = [posts EXCEPT ![k] =
              IF p.body.kind = "notJson" THEN [p EXCEPT !.pc = "done", !.status = 500]
              ELSE IF InvalidBody(p.body) THEN [p EXCEPT !.pc = "done", !.status = 400]
              ELSE IF ~f.exists THEN [p EXCEPT !.pc = "done", !.status = 500]
              ELSE [p EXCEPT !.pc = "loaded",
                             !.loaded = IF f.linksGiven THEN f.links ELSE <<>>]]
    /\ UNCHANGED <<files, postClock, notLinksApiVars>>

\* after the await: update or push, then the synchronous write of the file
\* (which may throw) and the response
PostSave(k, writeOk) ==
    /\ k \in 1..Len(posts)
    /\ posts[k].pc = "loaded"
    /\ LET p == posts[k]
           data == UpsertLink(p.loaded, p.body.link, postClock)
       IN  IF writeOk
           THEN /\ files' = [files EXCEPT ![FileWritten(p.dataset)] = DataFile(data)]
                /\ posts' = [posts EXCEPT ![k] =
                                [p EXCEPT !.pc = "done", !.status = 200, !.wrote = TRUE,
                                          !.loaded = data]]
           ELSE /\ files' = files
                /\ posts' = [posts EXCEPT ![k] =
                                [p EXCEPT !.pc = "done", !.status = 500, !.loaded = data]]
    /\ postClock' = postClock + 1
    /\ UNCHANGED notLinksApiVars

NextLinksApi ==
    \/ \E dataset \in Datasets, body \in PostBodies : PostArrives(dataset, body)
    \/ \E k \in 1..Len(posts) : PostLoad(k)
    \/ \E k \in 1..Len(posts), writeOk \in BOOLEAN : PostSave(k, writeOk)

SpecLinksApi == InitLinksApi /\ [][NextLinksApi]_vars

-----------------------------------------------------------------------------
\* VirtualizedLinkList: the memoized lists and the handlers of the filters.
\* A link's id is the triple of its indices; texts typed into the search box
\* are sequences of one-character strings.

LockedCategory == "ZAO Community Members"

\* the data prop: a locked category and a public one; the second subcategory
\* of the public category has the name of the locked category's subcategory
ListData ==
    << [name |-> LockedCategory,
        subcategories |->
          << [name |-> "Members",
              links |-> << [title |-> "m1", tagsGiven |-> TRUE, tags |-> <<"Community">>] >>] >>],
       [name |-> "Resources",
        subcategories |->
          << [name |-> "Docs",
              links |-> << [title |-> "p1", tagsGiven |-> TRUE, tags |-> <<"Official">>],
                           [title |-> "p2", tagsGiven |-> FALSE, tags |-> <<>>] >>],
             [name |-> "Members",
              links |-> << [title |-> "p3", tagsGiven |-> TRUE, tags |-> <<>>] >>] >>] >>

\* what Math.random() may make of the tags of a link that has none
RandomTagChoices == {<<>>, <<"Community", "Community">>}
FilterTagChoices == {<<>>, <<"Community">>}
Queries == {<<>>, <<" ">>, <<"d">>}
ViewModes == {"grid", "list"}

RECURSIVE Concat(_)
Concat(seqs) == IF Len(seqs) = 0 THEN <<>> ELSE Head(seqs) \o Concat(Tail(seqs))

\* category.name === "ZAO Community Members" && !isAuthenticated
SkipCategory_never(name, auth) == FALSE

SkipCategory(name, auth) == name = LockedCategory /\ ~auth

\* links.push({ ...link, category, subcategory, id, tags: link.tags || randomTags })
FlattenSubcategory(category, c, u, random) ==
    LET subcategory == category.subcategories[u]
    IN  [l \in 1..Len(subcategory.links) |->
            [id |-> <<c - 1, u - 1, l - 1>>,
             title |-> subcategory.links[l].title,
             category |-> category.name,
             subcategory |-> subcategory.name,
             tags |-> IF subcategory.links[l].tagsGiven
                      THEN subcategory.links[l].tags ELSE random]]

\* the allLinks memo
AllLinksOf(data, auth, random) ==
    Concat([c \in 1..Len(data) |->
              IF SkipCategory(data[c].name, auth) THEN <<>>
              ELSE Concat([u \in 1..Len(data[c].subcategories) |->
                              FlattenSubcategory(data[c], c, u, random)])])

allLinks == AllLinksOf(ListData, isAuthenticated, randomTags)

Includes1(seq, x) == \E i \in 1..Len(seq) : seq[i] = x

\* the ids of all links of the data, locked or not
AllLinkIds ==
    LET every == AllLinksOf(ListData, TRUE, <<>>)
    IN  {every[i].id : i \in 1..Len(every)}

\* the sets of links the fuzzy matcher may accept for a query
FuseHitChoices == {{}, {<<0, 0, 0>>, <<1, 0, 0>>}, AllLinkIds}

\* the allTags memo, as a set (the order of the badges is left out)
allTags ==
    UNION {{allLinks[i].tags[j] : j \in 1..Len(allLinks[i].tags)} : i \in 1..Len(allLinks)}

\* str.trim()
RECURSIVE TrimLeft(_)
TrimLeft(str) ==
    IF Len(str) > 0 /\ Head(str) = " " THEN TrimLeft(Tail(str)) ELSE str

RECURSIVE TrimRight(_)
TrimRight(str) ==
    IF Len(str) > 0 /\ str[Len(str)] = " "
    THEN TrimRight(SubSeq(str, 1, Len(str) - 1)) ELSE str

Trim(str) == TrimRight(TrimLeft(str))

\* tagsToFilter.some(tag => link.tags.includes(tag)), with every for some
TagMatch_every(link, tagsToFilter) ==
    /\ Len(link.tags) > 0
    /\ \A k \in 1..Len(tagsToFilter) : Includes1(link.tags, tagsToFilter[k])

TagMatch(link, tagsToFilter) ==
    /\ Len(link.tags) > 0
    /\ \E k \in 1..Len(tagsToFilter) : Includes1(link.tags, tagsToFilter[k])

\* fuse.search(query).map(result => result.item): the links the matcher
\* accepts (their order by score is left out)
FuseSearch(links, hits) ==
    LET Hit(link) == link.id \in hits
    IN  SelectSeq(links, Hit)

\* the filteredLinks memo
FilteredLinksOf(links, category, subcategory, tags, extTags, query, hits) ==
    LET InCategory(link) == link.category = category
        InSubcategory(link) == link.subcategory = subcategory
        tagsToFilter == tags \o extTags
        HasTag(link) == TagMatch(link, tagsToFilter)
        f1 == IF category # NULL THEN SelectSeq(links, InCategory) ELSE links
        f2 == IF subcategory # NULL THEN SelectSeq(f1, InSubcategory) ELSE f1
        f3 == IF Len(tagsToFilter) > 0 THEN SelectSeq(f2, HasTag) ELSE f2
    IN  IF Len(Trim(query)) > 0 THEN FuseSearch(f3, hits) ELSE f3

filteredLinks ==
    FilteredLinksOf(allLinks, selectedCategory, selectedSubcategory, selectedTags,
                    filterTags, searchQuery, fuseHits)

\* the number of links of a category (of one of its subcategories) in allLinks
CountIn(links, category) ==
    Cardinality({i \in 1..Len(links) : links[i].category = category})

CountInSub(links, category, subcategory) ==
    Cardinality({i \in 1..Len(links) :
                    links[i].category = category /\ links[i].subcategory = subcategory})

\* the categoryCounts memo: the categories that have links in allLinks, and
\* the locked category with zero counts while not authenticated
CategoryCountsOf(data, links, auth) ==
    [c \in {k \in 1..Len(data) :
               \/ CountIn(links, data[k].name) > 0
               \/ ~auth /\ data[k].name = LockedCategory} |->
        IF ~auth /\ data[c].name = LockedCategory
        THEN [name |-> data[c].name, count |-> 0,
              subcategories |-> [u \in 1..Len(data[c].subcategories) |->
                                   [name |-> data[c].subcategories[u].name, count |-> 0]]]
        ELSE [name |-> data[c].name, count |-> CountIn(links, data[c].name),
              subcategories |->
                 [u \in {v \in 1..Len(data[c].subcategories) :
                            CountInSub(links, data[c].name,
                                       data[c].subcategories[v].name) > 0} |->
                     [name |-> data[c].subcategories[u].name,
                      count |-> CountInSub(links, data[c].name,
                                           data[c].subcategories[u].name)]]]]

categoryCounts == CategoryCountsOf(ListData, allLinks, isAuthenticated)

\* the names on the category triggers and on the subcategory buttons rendered
ListedCategories == {categoryCounts[c].name : c \in DOMAIN categoryCounts}

ListedSubcategories ==
    UNION {{categoryCounts[c].subcategories[u].name :
               u \in DOMAIN categoryCounts[c].subcategories} :
           c \in {k \in DOMAIN categoryCounts :
                     ~(categoryCounts[k].name = LockedCategory /\ ~isAuthenticated)}}

\* the component is mounted
InitLinkList ==
    /\ InitWallet /\ InitHome /\ InitThresholdIdle /\ InitTagsIdle /\ InitLinksApiIdle
    /\ InitLoadIdle
    /\ isAuthenticated \in BOOLEAN
    /\ filterTags \in FilterTagChoices
    /\ searchQuery = <<>>
    /\ selectedCategory = NULL
    /\ selectedSubcategory = NULL
    /\ selectedTags = <<>>
    /\ viewMode = "grid"
    /\ randomTags \in RandomTagChoices
    /\ fuseHits = {}

\* <Search onSearch={setSearchQuery} />; hits are the links the fuzzy matcher
\* accepts for the query
SetSearchQuery(query, hits) ==
    /\ searchQuery' = query
    /\ fuseHits' = IF Len(Trim(query)) > 0 THEN hits ELSE {}
    /\ UNCHANGED <<isAuthenticated, filterTags, selectedCategory, selectedSubcategory,
                   selectedTags, viewMode, randomTags, notLinkListVars>>

\* handleCategorySelect
HandleCategorySelect(category) ==
    /\ selectedCategory' = IF selectedCategory = category THEN NULL ELSE category
    /\ selectedSubcategory' = NULL

\* onClick of a category's AccordionTrigger
CategoryClick(category) ==
    /\ category \in ListedCategories
    /\ IF category = LockedCategory /\ ~isAuthenticated
       THEN UNCHANGED <<selectedCategory, selectedSubcategory>>
       ELSE HandleCategorySelect(category)
    /\ UNCHANGED <<isAuthenticated, filterTags, searchQuery, selectedTags, viewMode,
                   randomTags, fuseHits, notLinkListVars>>

\* onClick of a subcategory button: handleSubcategorySelect
SubcategoryClick(subcategory) ==
    /\ subcategory \in ListedSubcategories
    /\ selectedSubcategory' = IF selectedSubcategory = subcategory THEN NULL ELSE subcategory
    /\ UNCHANGED <<isAuthenticated, filterTags, searchQuery, selectedCategory, selectedTags,
                   viewMode, randomTags, fuseHits, notLinkListVars>>

\* onClick of a tag badge: handleTagSelect
TagClick(tag) ==
    /\ tag \in allTags
    /\ selectedTags' = IF Includes1(selectedTags, tag)
                       THEN LET Other(t) == t # tag IN SelectSeq(selectedTags, Other)
                       ELSE Append(selectedTags, tag)
    /\ UNCHANGED <<isAuthenticated, filterTags, searchQuery, selectedCategory,
                   selectedSubcategory, viewMode, randomTags, fuseHits, notLinkListVars>>

\* clearFilters, from either of its two buttons
ClearFilters ==
    /\ \/ selectedCategory # NULL \/ selectedSubcategory # NULL
       \/ Len(selectedTags) > 0 \/ Len(searchQuery) > 0
       \/ Len(filteredLinks) = 0
    /\ searchQuery' = <<>>
    /\ selectedCategory' = NULL
    /\ selectedSubcategory' = NULL
    /\ selectedTags' = <<>>
    /\ UNCHANGED <<isAuthenticated, filterTags, viewMode, randomTags, fuseHits,
                   notLinkListVars>>

SetViewMode(mode) ==
    /\ viewMode' = mode
    /\ UNCHANGED <<isAuthenticated, filterTags, searchQuery, selectedCategory,
                   selectedSubcategory, selectedTags, randomTags, fuseHits, notLinkListVars>>

\* useAuth().isAuthenticated changes; allLinks is computed again and with it
\* the random tags
AuthChange(random) ==
    /\ isAuthenticated' = ~isAuthenticated
    /\ randomTags' = random
    /\ UNCHANGED <<filterTags, searchQuery, selectedCategory, selectedSubcategory,
                   selectedTags, viewMode, fuseHits, notLinkListVars>>

NextLinkList ==
    \/ \E query \in Queries, hits \in FuseHitChoices : SetSearchQuery(query, hits)
    \/ \E category \in ListedCategories : CategoryClick(category)
    \/ \E subcategory \in ListedSubcategories : SubcategoryClick(subcategory)
    \/ \E tag \in allTags : TagClick(tag)
    \/ ClearFilters
    \/ \E mode \in ViewModes : SetViewMode(mode)
    \/ \E random \in RandomTagChoices : AuthChange(random)

SpecLinkList == InitLinkList /\ [][NextLinkList]_vars

-----------------------------------------------------------------------------
\* generateTagsForLink (src/lib/auto-tagger.ts), the client of /api/auto-tag

\* Partial<Link> values: every field may be absent or the empty string
TagLinks ==
    [title : {"", "t"}, description : {"", "d"}, url : {"", "u"}]
        \cup {[title |-> "t"], [url |-> "u"], [description |-> ""], [category |-> "c"]}

\* how the request to /api/auto-tag may go: fetch rejects; the response is
\* not OK and its text can or cannot be read; the body is not JSON; the body
\* is the JSON value null; the body is an object with or without tags
AutoTagOutcomes ==
    {[st |-> "rejected"], [st |-> "badJson"], [st |-> "jsonNull"],
     [st |-> "nonOk", textRead |-> TRUE], [st |-> "nonOk", textRead |-> FALSE],
     [st |-> "json", tagsGiven |-> FALSE, tags |-> <<>>]}
        \cup {[st |-> "json", tagsGiven |-> TRUE, tags |-> t] :
                 t \in {<<>>, <<"ai">>, <<"ai", "web">>}}

\* what a call gives: a value (tags, or undefined when given is false) or an
\* exception; called tells whether fetch was called
Returned(called, given, tags) ==
    [kind |-> "returned", called |-> called, given |-> given, tags |-> tags]
Threw(called) ==
    [kind |-> "threw", called |-> called, given |-> FALSE, tags |-> <<>>]

\* the try block
TryBlock(link, outcome) ==
    IF Falsy(link, "title") /\ Falsy(link, "description") /\ Falsy(link, "url")
    THEN Returned(FALSE, TRUE, <<>>)
    ELSE CASE outcome.st = "rejected" -> Threw(TRUE)
           [] outcome.st = "nonOk" ->
                 IF outcome.textRead THEN Returned(TRUE, TRUE, <<>>) ELSE Threw(TRUE)
           [] outcome.st = "badJson" -> Threw(TRUE)
           [] outcome.st = "jsonNull" -> Threw(TRUE)
           [] outcome.st = "json" -> Returned(TRUE, outcome.tagsGiven, outcome.tags)

\* the function without its catch block
generateTagsForLink_noCatch(link, outcome) == TryBlock(link, outcome)

\* try { ... } catch (error) { return []; }
generateTagsForLink(link, outcome) ==
    LET r == TryBlock(link, outcome)
    IN  IF r.kind = "threw" THEN Returned(r.called, TRUE, <<>>) ELSE r

InitAutoTag ==
    /\ InitWallet /\ InitHome /\ InitThresholdIdle /\ InitTagsIdle /\ InitLinksApiIdle
    /\ InitLinkListIdle /\ InitLoadIdle

\* a call of generateTagsForLink(link)
GenerateTagsForLinkCall(link, outcome) ==
    /\ tagRequest' = [via |-> "autoTag", link |-> link, endpoint |-> outcome]
    /\ tagResult' = generateTagsForLink(link, outcome)
    /\ UNCHANGED <<apiKey, notTagVars>>

NextAutoTag ==
    \E link \in TagLinks, outcome \in AutoTagOutcomes : GenerateTagsForLinkCall(link, outcome)

SpecAutoTag == InitAutoTag /\ [][NextAutoTag]_vars

-----------------------------------------------------------------------------
\* loadLinks (src/app/page.tsx:45-68 and src/app/links/page.tsx:13-35)

\* the two pages that define loadLinks
Pages == {"home", "links"}

\* what GET /api/links can answer with status 200, and the bundled links.json
ApiBodies == {[kind |-> "data", from |-> "api", version |-> v] : v \in {1, 2}}
StaticData == [kind |-> "data", from |-> "static", version |-> 0]

\* how `await fetch('/api/links')` settles
FetchOutcomes == {"ok", "nonOk", "threw"}

\* the effect runs after the first render: loadLinks() is called and waits
\* for fetch
Mount(p) ==
    /\ loaders[p].pc = "idle"
    /\ loaders' = [loaders EXCEPT ![p].pc = "fetch"]
    /\ UNCHANGED notLoadVars

\* fetch settles: an OK response goes on to response.json(); a non-OK
\* response throws 'Failed to load links' and, like a rejected fetch, lands in
\* the catch block, which waits for the import of the static file
FetchSettles(p, outcome) ==
    /\ loaders[p].pc = "fetch"
    /\ loaders' = [loaders EXCEPT
                     ![p].pc = IF outcome = "ok" THEN "json" ELSE "import",
                     ![p].fetched = IF outcome = "ok" THEN "pending" ELSE outcome]
    /\ UNCHANGED notLoadVars

\* response.json() settles: with the body, which is stored before the finally
\* block runs, or with a rejection, which lands in the catch block
JsonSettles(p, parsed, body) ==
    /\ loaders[p].pc = "json"
    /\ loaders' = [loaders EXCEPT ![p] =
                     IF parsed
                     THEN [@ EXCEPT !.pc = "done", !.fetched = "ok",
                                    !.linksData = body, !.loading = FALSE]
                     ELSE [@ EXCEPT !.pc = "import", !.fetched = "badJson"]]
    /\ UNCHANGED notLoadVars

\* a failed import that skips the finally block
ImportSettles_noFinally(p, ok) ==
    /\ loaders[p].pc = "import"
    /\ loaders' = [loaders EXCEPT ![p] =
                     IF ok
                     THEN [@ EXCEPT !.pc = "done", !.fallback = "ok",
                                    !.linksData = StaticData, !.loading = FALSE]
                     ELSE [@ EXCEPT !.pc = "rejected", !.fallback = "failed"]]
    /\ UNCHANGED notLoadVars

\* import('@/data/links.json') settles: the data is stored, or the import
\* rejects inside the catch block; the finally block runs either way, and in
\* the second case loadLinks() rejects after it
ImportSettles(p, ok) ==
    /\ loaders[p].pc = "import"
    /\ loaders' = [loaders EXCEPT ![p] =
                     IF ok
                     THEN [@ EXCEPT !.pc = "done", !.fallback = "ok",
                                    !.linksData = StaticData, !.loading = FALSE]
                     ELSE [@ EXCEPT !.pc = "rejected", !.fallback = "failed",
                                    !.loading = FALSE]]
    /\ UNCHANGED notLoadVars

InitLoad ==
    /\ InitWallet /\ InitHome /\ InitThresholdIdle /\ InitTagsIdle /\ InitLinksApiIdle
    /\ InitLinkListIdle /\ InitLoadIdle

NextLoad ==
    \/ \E p \in Pages : Mount(p)
    \/ \E p \in Pages, outcome \in FetchOutcomes : FetchSettles(p, outcome)
    \/ \E p \in Pages, parsed \in BOOLEAN, body \in ApiBodies : JsonSettles(p, parsed, body)
    \/ \E p \in Pages, ok \in BOOLEAN : ImportSettles(p, ok)

\* the effect runs once the page has rendered, and each promise loadLinks
\* waits for settles
FairLoad ==
    \A p \in Pages :
        /\ WF_vars(Mount(p))
        /\ WF_vars(\E outcome \in FetchOutcomes : FetchSettles(p, outcome))
        /\ WF_vars(\E parsed \in BOOLEAN, body \in ApiBodies : JsonSettles(p, parsed, body))
        /\ WF_vars(\E ok \in BOOLEAN : ImportSettles(p, ok))

SpecLoad == InitLoad /\ [][NextLoad]_vars /\ FairLoad

-----------------------------------------------------------------------------
\* Properties

\* a stored balance string is at least 0.1 token
MeetsThreshold(balance) == parseEther(balance) >= parseEther(Tenth)

\* the three store fields a check cycle writes
Gate == <<zaoBalance, loanzBalance, hasTokens>>
GateReset == <<ZeroBalance, ZeroBalance, FALSE>>

C2_AbsentAddressMeansReset ==
    address = NULL =>
        /\ ~isConnected
        /\ zaoBalance = ZeroBalance
        /\ loanzBalance = ZeroBalance
        /\ ~hasTokens

\* C3: every disconnect notification, from any prior page state, leaves the
\* wallet address absent, both balances at "0" and hasTokens false.
C3_DisconnectResets ==
    [][(WalletConnectorEffect /\ ready /\ ~authenticated) =>
          /\ walletAddress' = NULL
          /\ pageZaoBalance' = ZeroBalance
          /\ pageLoanzBalance' = ZeroBalance
          /\ pageHasTokens' = FALSE]_vars

\* a disconnect found a connected page that had access, and the page is reset
C3_Witness ==
    /\ notified.kind = "disconnected"
    /\ notified.address # NULL
    /\ notified.hadTokens
    /\ walletAddress = NULL
    /\ ~pageHasTokens
    /\ pageZaoBalance = ZeroBalance
    /\ pageLoanzBalance = ZeroBalance

\* a round of queries was issued for address a less than Cooldown ago
InWindow(a) == lastRoundAt[a] # 0 /\ now - lastRoundAt[a] < Cooldown

\* C4: a checkTokenBalance call made for the store's address a less than 10
\* seconds after a round of queries was issued for a issues no queries and
\* leaves the balances, hasTokens and lastChecked unchanged (the address stays a).
C4_SecondCallIsNoOp ==
    [][\A a \in Addresses :
          (address' = a /\ InWindow(a) /\ CheckTokenBalance(a)) =>
             /\ inflight' = inflight
             /\ lastRoundAt' = lastRoundAt
             /\ lastChecked' = lastChecked
             /\ Gate' = Gate]_vars

\* a call was throttled within the window of the connected address
C4_Witness ==
    /\ lastCall = "throttled"
    /\ address # NULL
    /\ InWindow(address)

\* C5: at most one balance-check cycle is in flight at any time.
C5_OneCycleInFlight == Len(inflight) <= 1

\* what a settled query q allows its token's stored balance to become, given
\* the balance stored before
AppliedBalance(q, old, new) ==
    IF q.st = "ok" THEN new = formatBalance(q.raw) ELSE new \in {old, ZeroBalance}

QueryMeets(q) == q.st = "ok" /\ q.raw >= parseEther(Tenth)

\* a query of cycle c failed
AnyFailed(c) == c.zao.st = "error" \/ c.loanz.st = "error"

OneFailed(c) ==
    \/ c.zao.st = "error" /\ c.loanz.st = "ok"
    \/ c.zao.st = "ok" /\ c.loanz.st = "error"

\* C8: when exactly one query of a cycle failed, the cycle still completes: the
\* other token's stored balance becomes the queried value, hasTokens becomes
\* that token's threshold flag, and the cycle is no longer in flight.
C8_OneFailureDoesNotAbort ==
    [][\A i \in 1..Len(inflight) :
          (OneFailed(inflight[i]) /\ Complete(i)) =>
             /\ inflight[i].zao.st = "ok" =>
                   /\ zaoBalance' = formatBalance(inflight[i].zao.raw)
                   /\ hasTokens' = MeetsThreshold(zaoBalance')
             /\ inflight[i].loanz.st = "ok" =>
                   /\ loanzBalance' = formatBalance(inflight[i].loanz.raw)
                   /\ hasTokens' = MeetsThreshold(loanzBalance')
             /\ Len(inflight') = Len(inflight) - 1]_vars

\* the LOANZ query failed and ZAO returned 0.1: the cycle completed with access
C8_Witness ==
    /\ loanzBalance = ZeroBalance
    /\ zaoBalance = formatBalance(10)
    /\ hasTokens
    /\ inflight = <<>>

\* C9: no checkTokenBalance call raises an error to its caller.
C9_NeverThrows == lastCall # "rejected"

\* C10: an accountsChanged event whose non-empty list starts with another
\* account, arriving less than 10 seconds after the round of queries of a check
\* that has since completed (and not failing in initialization), sets address
\* to the first entry and starts a check cycle for it.
C10_AccountChangeBypassesCooldown ==
    [][\A accounts \in AccountLists :
          (/\ Len(accounts) > 0
           /\ accounts[1] # address
           /\ AccountsChanged(accounts)
           /\ inflight = <<>>
           /\ \E a \in Addresses : InWindow(a)
           /\ lastCall' # "rejected") =>
             /\ address' = accounts[1]
             /\ Len(inflight') = Len(inflight) + 1
             /\ inflight'[Len(inflight')].addr = accounts[1]]_vars

\* a round of queries was issued for a by this step
RoundStartedFor(a) ==
    /\ Len(inflight') = Len(inflight) + 1
    /\ inflight'[Len(inflight')].addr = a

\* C11: a chainChanged event always starts a balance-check cycle for the
\* connected address, however recently the last check ran.
C11_ChainChangeBypassesCooldown ==
    [][(address # NULL /\ InWindow(address) /\ ChainChanged /\ lastCall' # "rejected")
          => RoundStartedFor(address)]_vars

\* C12: an accountsChanged event with an empty account list ends, from any
\* state, in the state disconnect() ends in: address absent, isConnected false,
\* both balances "0", hasTokens false, everything else as it was.
C12_EmptyAccountsIsDisconnect ==
    [][AccountsChanged(<<>>)
          => /\ Disconnect
             /\ address' = NULL /\ ~isConnected'
             /\ Gate' = GateReset
             /\ UNCHANGED <<lastChecked, cacheVars, cycleVars>>]_vars

\* a session that had a round of queries issued and completed is reset
C12_Witness ==
    /\ address = NULL /\ ~isConnected /\ Gate = GateReset
    /\ lastCall = "started" /\ inflight = <<>>
    /\ lastChecked = Cooldown /\ now > Cooldown

\* C13: a successful connect sets address and isConnected and starts a
\* balance-check cycle for that address.
C13_ConnectStartsCycle ==
    [][\A a \in Addresses :
          (address = NULL /\ (\E b \in Addresses : InWindow(b)) /\ Connect(a)
              /\ lastCall' # "rejected")
             => (address' = a /\ isConnected' /\ RoundStartedFor(a))]_vars

\* C14: a failed connect attempt leaves the session state as it was and is
\* reported to the caller: the parent of WalletConnector is called back, now or
\* by the effect the attempt schedules.
C14_FailedConnectIsReported ==
    [][LoginFailed
          => /\ pageVars' = pageVars
             /\ <<authenticated, userWallet>>' = <<authenticated, userWallet>>
             /\ (notified' # notified \/ effectPending')]_vars

\* C15: no balance query is issued while the address is absent: a check
\* called then changes nothing, and every round of queries that starts is for
\* the address the store holds.
C15_NoQueryWhileDisconnected ==
    [][/\ (Len(inflight') > Len(inflight))
             => (address' # NULL /\ RoundStartedFor(address'))
       /\ (address = NULL /\ (Refresh \/ ChainChanged))
             => UNCHANGED <<storeVars, cacheVars, now, inflight, lastRoundAt>>]_vars

\* a check was called after the session's address had been cleared
C15_Witness ==
    /\ address = NULL
    /\ lastCall = "noAddress"
    /\ \E a \in Addresses : lastRoundAt[a] # 0

C17_FirstCheckAfterReloadRuns ==
    [][(lastCall = "none" /\ address # NULL /\ isConnected /\ (Refresh \/ ChainChanged))
          => RoundStartedFor(address)]_vars

\* C18: a token meets the threshold exactly when its raw balance is at least
\* 0.1 x 10^decimals for the decimals that token reports.
C18_ThresholdPerDecimals ==
    tokenChecked
       => (tokenHasToken <=> tokenRaw >= parseUnits(Tenth, tokenDecimals))

\* the latest call was generateTags and OpenAI gave no usable answer, or no
\* API key is configured
TagsMustDegrade ==
    /\ tagRequest.via = "service"
    /\ (~apiKey \/ tagRequest.openai.st # "json")

\* C20: when the OpenAI call fails (error, empty content, unparsable JSON) or no
\* API key is provided, generateTags returns the locally generated result
\* instead of raising.
C20_TagsDegradeLocally ==
    TagsMustDegrade
       => tagResult = [kind |-> "returned",
                       value |-> generateTagsLocally(
                                    [title |-> tagRequest.title,
                                     description |-> tagRequest.description])]

\* C21: when the account changed while a check for the former account was in
\* flight, the completion of the last cycle in flight does not write that
\* cycle's results into the session of another address.
C21_StaleCycleNotApplied ==
    [][\A i \in 1..Len(inflight) :
          (Len(inflight) = 1 /\ address # NULL /\ inflight[i].addr # address
              /\ Complete(i))
             => Gate' = Gate]_vars

StoredIds(dataset) ==
    {files[FileWritten(dataset)].links[i].id :
        i \in 1..Len(files[FileWritten(dataset)].links)}

\* C22: two POST requests for the same dataset with different ids that have
\* both responded success are both stored, overlapping or not.
C22_OverlappingPostsBothStored ==
    \A j, k \in 1..Len(posts) :
        (/\ j # k
         /\ posts[j].status = 200 /\ posts[k].status = 200
         /\ posts[j].dataset = posts[k].dataset
         /\ posts[j].body.link.id # posts[k].body.link.id)
            => {posts[j].body.link.id, posts[k].body.link.id}
                  \subseteq StoredIds(posts[j].dataset)

NoDuplicateIds(links) ==
    \A i, j \in 1..Len(links) : links[i].id = links[j].id => i = j

\* the fields of link are those of the stored entry
Carries(entry, link) == \A f \in DOMAIN link : f \in DOMAIN entry /\ entry[f] = link[f]

\* what a successful POST writes, from the links it loaded
ReplacedOrAppended(old, new, link, t) ==
    IF \E i \in 1..Len(old) : old[i].id = link.id
    THEN /\ Len(new) = Len(old)
         /\ \A i \in 1..Len(old) :
               IF old[i].id = link.id
               THEN /\ Carries(new[i], link)
                    /\ new[i].updatedAt = t
                    /\ \A f \in DOMAIN old[i] \ (DOMAIN link \cup {"updatedAt"}) :
                          new[i][f] = old[i][f]
               ELSE new[i] = old[i]
    ELSE /\ Len(new) = Len(old) + 1
         /\ SubSeq(new, 1, Len(old)) = old
         /\ Carries(new[Len(new)], link)
         /\ new[Len(new)].createdAt = t
         /\ DOMAIN new[Len(new)] = DOMAIN link \cup {"createdAt"}

\* C23: no two stored links share an id; a POST whose id is present replaces
\* that entry in place (fields merged, updatedAt set, same number of links),
\* and a POST with a new id appends exactly one entry with createdAt set.
C23_IdsStayUnique ==
    [][/\ \A d \in Datasets : NoDuplicateIds(files[d].links')
       /\ \A k \in 1..Len(posts) :
             (posts[k].pc = "loaded" /\ posts'[k].status = 200)
                => /\ files'[FileWritten(posts[k].dataset)].links = posts'[k].loaded
                   /\ ReplacedOrAppended(posts[k].loaded, posts'[k].loaded,
                                         posts[k].body.link, postClock)]_vars

\* the seed link was replaced in place by one request and a link with a new
\* id was appended by the next
C23_Witness ==
    /\ Len(files.default.links) = 2
    /\ files.default.links[1] =
          [id |-> "1", title |-> "b", url |-> "u", description |-> "d",
           createdAt |-> 0, updatedAt |-> 1]
    /\ files.default.links[2] = [id |-> "2", title |-> "b", url |-> "u", createdAt |-> 2]
    /\ \A k \in 1..Len(posts) : posts[k].status = 200

\* the body has no link, or its link has no id, no title or no url
LacksRequired(body) ==
    \/ body.kind = "noLink"
    \/ body.kind = "link"
         /\ \E f \in {"id", "title", "url"} :
               f \notin DOMAIN body.link \/ body.link[f] = ""

LockedLinkIds == {id \in AllLinkIds : ListData[id[1] + 1].name = LockedCategory}

\* C25: while the user is not authenticated no link of the locked category is
\* in the displayed list and the locked category is listed with count 0; a
\* click on it then selects nothing.
C25_LockedLinksHidden ==
    /\ [](~isAuthenticated
            => /\ \A i \in 1..Len(filteredLinks) :
                     /\ filteredLinks[i].id \notin LockedLinkIds
                     /\ filteredLinks[i].category # LockedCategory
               /\ \E c \in DOMAIN categoryCounts :
                     /\ categoryCounts[c].name = LockedCategory
                     /\ categoryCounts[c].count = 0
                     /\ \A u \in DOMAIN categoryCounts[c].subcategories :
                           categoryCounts[c].subcategories[u].count = 0)
    /\ [][(~isAuthenticated /\ CategoryClick(LockedCategory))
            => UNCHANGED <<selectedCategory, selectedSubcategory>>]_vars

\* the user selected the locked category while authenticated, typed a query
\* that matches a locked link, and is no longer authenticated
C25_Witness ==
    /\ ~isAuthenticated
    /\ selectedCategory = LockedCategory
    /\ Len(Trim(searchQuery)) > 0
    /\ LockedLinkIds \subseteq fuseHits
    /\ Len(filteredLinks) = 0

\* new holds the elements of all at the positions in keep, in their order
IsSubsequenceAt(new, all, keep) ==
    /\ Len(new) = Cardinality(keep)
    /\ \A k \in 1..Len(new) :
          \E i \in keep : new[k] = all[i] /\ Cardinality({j \in keep : j < i}) = k - 1

\* the union of the selected tags and the external filter tags
TagUnion ==
    {selectedTags[k] : k \in 1..Len(selectedTags)} \cup {filterTags[k] : k \in 1..Len(filterTags)}

\* the positions of allLinks that pass the category, subcategory and tag filters
PassingPositions ==
    {i \in 1..Len(allLinks) :
        /\ selectedCategory # NULL => allLinks[i].category = selectedCategory
        /\ selectedSubcategory # NULL => allLinks[i].subcategory = selectedSubcategory
        /\ TagUnion # {}
              => \E j \in 1..Len(allLinks[i].tags) : allLinks[i].tags[j] \in TagUnion}

\* C28: with an empty search query the displayed list is the sub-sequence of
\* all links, in their order, that pass the category, subcategory and tag
\* filters; clearFilters without external filter tags displays all links.
C28_FilterIsSubsequence ==
    /\ [](Len(Trim(searchQuery)) = 0
            => IsSubsequenceAt(filteredLinks, allLinks, PassingPositions))
    /\ [][(ClearFilters /\ filterTags = <<>>) => filteredLinks' = allLinks']_vars

\* a subcategory name shared by two categories and an external filter tag
\* leave the one link that has both
C28_Witness ==
    /\ isAuthenticated
    /\ Len(searchQuery) = 0
    /\ selectedCategory = NULL /\ selectedSubcategory = "Members"
    /\ filterTags = <<"Community">> /\ selectedTags = <<"Official">>
    /\ Len(allLinks) = 4
    /\ Len(filteredLinks) = 1 /\ filteredLinks[1].id = <<0, 0, 0>>

\* C26: once Privy is ready and the effect of WalletConnector has run, the
\* page's walletAddress is the wallet address of the authenticated user and
\* null when there is none; before Privy is ready neither callback is called.
C26_ParentTracksProviderWallet ==
    /\ (ready /\ ~effectPending)
          => walletAddress = (IF authenticated /\ userWallet # NULL THEN userWallet ELSE NULL)
    /\ ~ready => notified.kind = "none"

\* C27: loadLinks always ends the loading state, however the fetch and the
\* fallback end; and when loading has ended after a fetch or a fallback that
\* succeeded, linksData is not null.
C27_LoadingEnds ==
    /\ \A p \in Pages : (loaders[p].pc = "fetch") ~> ~loaders[p].loading
    /\ [](\A p \in Pages :
            /\ loaders[p].loading <=> loaders[p].pc \notin {"done", "rejected"}
            /\ (~loaders[p].loading /\ (loaders[p].fetched = "ok" \/ loaders[p].fallback = "ok"))
                  => loaders[p].linksData.kind = "data")

\* the fetch was answered with a non-OK status and the import of the static
\* file failed as well: the page is no longer loading and has no data
C27_Witness ==
    /\ loaders["links"].fetched = "nonOk" /\ loaders["links"].fallback = "failed"
    /\ ~loaders["links"].loading /\ loaders["links"].linksData = NoData
    /\ loaders["home"].fetched = "threw" /\ loaders["home"].fallback = "ok"
    /\ ~loaders["home"].loading /\ loaders["home"].linksData = StaticData

\* the request to /api/auto-tag gave no tags: it failed, was answered with a
\* non-OK status, or its body could not be parsed
EndpointFailed ==
    tagRequest.endpoint.st \in {"rejected", "nonOk", "badJson", "jsonNull"}

\* title, description and url of the link are all empty
NothingToTag ==
    /\ Falsy(tagRequest.link, "title")
    /\ Falsy(tagRequest.link, "description")
    /\ Falsy(tagRequest.link, "url")

\* C29: generateTagsForLink never raises; with title, description and url all
\* empty it returns [] without calling the endpoint, and it returns []
\* whenever the request fails, is answered non-OK or cannot be parsed.
C29_AutoTagNeverRaises ==
    tagRequest.via = "autoTag"
        => /\ tagResult.kind = "returned"
           /\ NothingToTag => tagResult = Returned(FALSE, TRUE, <<>>)
           /\ (~NothingToTag /\ EndpointFailed) => tagResult = Returned(TRUE, TRUE, <<>>)

\* the endpoint answered 200 with the body null for a link that has only a url
C29_Witness ==
    /\ tagRequest.via = "autoTag"
    /\ tagRequest.link = [url |-> "u"]
    /\ tagRequest.endpoint.st = "jsonNull"
    /\ tagResult = Returned(TRUE, TRUE, <<>>)

\* the cache slot a constructor fills holds an instance
Cached(k) ==
    [optimism |-> providers.optimism, base |-> providers.base,
     zao |-> contracts.zao, loanz |-> contracts.loanz][k]

\* C30: during a page load each provider and each contract is constructed at
\* most once, exactly once when its cache slot is filled, and all four exist
\* after a call that started a cycle; a later call replaces none of them.
C30_InitializedOnce ==
    /\ [](\A k \in Constructors : created[k] = IF Cached(k) THEN 1 ELSE 0)
    /\ [](lastCall = "started" => \A k \in Constructors : created[k] = 1)
    /\ [][Reload \/ \A k \in Constructors :
                      Cached(k) => Cached(k)' /\ created'[k] = created[k]]_vars

\* two cycles were started, each after a call of initializeProviders
C30_Witness ==
    /\ Len(inflight) = 2
    /\ lastCall = "started"
    /\ \A k \in Constructors : created[k] = 1
====
